---- MODULE Spec2Model ----
(***************************************************************************)
(* Verification model of jonathan-lemos/ai-project:                        *)
(*   src/prioritymap.py  - prioritymap (heapq min-heap of keys + dict)     *)
(*   src/algorithms.py   - a_star and ara (Anytime Repairing A* generator) *)
(*   src/ui.py           - Point, Line, Rect, Shape (value types)          *)
(*   src/main.py         - neighbors_free_space (grid neighbors)           *)
(* Points are 1..NumPoints; neighbor_fn / edge_cost_fn are given by an     *)
(* edge-cost table drawn in Init; heuristic_fn by a table drawn in Init.   *)
(***************************************************************************)
EXTENDS Integers, Sequences, FiniteSets, TLC

\* ------------------------------------------------------------------ bounds
NumPoints == 4
MaxEdgeCost == 2
MaxH == 1
MaxMaxCost == 1
MaxFactor == 2
MaxFactors == 2
MaxKey == 3
MaxHeap == 4
MaxCoord == 2
MaxShape == 4
GridCols == 5
GridRows == 3
Scale == 1000
MaxSteepH == 2
MaxFlatCost == 1
NumRing == 5

\* ------------------------------------------------------- caller's inputs
Points == 1..NumPoints
\* the edges the caller's graph may have: undirected, between points whose
\* indices differ by at most two
EdgeSlots == {e \in Points \X Points : e[1] < e[2] /\ e[2] - e[1] <= 2}
NoEdge == -1
NoPoint == 0
NoMaxCost == -1
\* float("inf"): above every g-cost a walk of a graph can have
Inf == 1000000

VARIABLES
    alg,            \* which entry point is running: "a_star", "ara", "pm", "ui"
    args,           \* geometry caller: the coordinates passed to the call
    edge,           \* EdgeSlots -> cost or NoEdge (get_neighbors, get_distance)
    hfn,            \* the caller's points -> heuristic value
    start, end,     \* start and destination
    max_cost,       \* a_star's max_cost (NoMaxCost is None)
    factors_arg,    \* the factors argument ara was called with
    factors,        \* ara's remaining inflation factors
    to_search,      \* the prioritymap: [heap |-> Seq(key), dict |-> key -> set]
    searched,       \* a_star's set of finalized points
    prev,           \* predecessor of each point (NoPoint: no entry)
    cost,           \* g-cost of each point (Inf: no entry)
    cost_with_heuristic,
    best_cost,      \* ara's best goal cost so far
    current,        \* the point popped in this iteration
    pc,             \* position: "loop", "popped", "yield", "done", "raised"
    result,         \* a_star's return value (<<>> is None)
    yielded,        \* the paths ara has yielded so far, in order
    last,           \* prioritymap driver: the outcome of the last call
    duplicates,     \* prioritymap driver: a live key was assigned again
    invoked         \* how often get_neighbors and callback were called, per point

vars == <<alg, args, edge, hfn, start, end, max_cost, factors_arg, factors, to_search, searched,
          prev, cost, cost_with_heuristic, best_cost, current, pc, result,
          yielded, last, duplicates, invoked>>

inputs == <<alg, args, edge, hfn, start, end, max_cost, factors_arg, duplicates>>

\* ------------------------------------------------- get_neighbors, distance
EdgeOf(p, q) == IF p < q THEN <<p, q>> ELSE <<q, p>>

\* the points the caller's functions are defined on
Nodes == DOMAIN hfn

get_neighbors(p) ==
    {q \in Nodes : q # p /\ EdgeOf(p, q) \in DOMAIN edge /\ edge[EdgeOf(p, q)] # NoEdge}

get_distance(p, q) == edge[EdgeOf(p, q)]

heuristic(p) == hfn[p]

\* no call of the caller's functions yet
NoCalls(S) == [neighbors |-> [p \in S |-> 0], callback |-> [p \in S |-> 0]]

\* callback was called for p
CallbackOn(calls, p) == [calls EXCEPT !.callback[p] = @ + 1]

\* get_neighbors(p) was called
NeighborsOn(calls, p) == [calls EXCEPT !.neighbors[p] = @ + 1]

\* ---------------------------------------------------------------- heapq
\* heapq._siftdown(heap, startpos, pos) for the item newitem taken from pos
\* (python index i is TLA+ index i + 1)
RECURSIVE siftdown(_, _, _, _)
siftdown(heap, startpos, pos, newitem) ==
    IF pos > startpos
    THEN LET parentpos == ((pos - 1 - 1) \div 2) + 1
             parent == heap[parentpos]
         IN  IF newitem < parent
             THEN siftdown([heap EXCEPT ![pos] = parent], startpos, parentpos, newitem)
             ELSE [heap EXCEPT ![pos] = newitem]
    ELSE [heap EXCEPT ![pos] = newitem]

\* heapq.heappush(heap, item)
heappush(heap, item) ==
    LET appended == Append(heap, item)
    IN  siftdown(appended, 1, Len(appended), item)

\* the while loop of heapq._siftup: bubble the smaller child up until a leaf
RECURSIVE siftup_loop(_, _, _)
siftup_loop(heap, pos, newitem) ==
    LET endpos == Len(heap) + 1
        childpos == 2 * (pos - 1) + 1 + 1
        rightpos == childpos + 1
        child == IF rightpos < endpos /\ ~(heap[childpos] < heap[rightpos])
                 THEN rightpos ELSE childpos
    IN  IF childpos < endpos
        THEN siftup_loop([heap EXCEPT ![pos] = heap[child]], child, newitem)
        ELSE siftdown([heap EXCEPT ![pos] = newitem], 1, pos, newitem)

\* heapq.heappop(heap): <<returned item, heap afterwards>>
heappop(heap) ==
    LET lastelt == heap[Len(heap)]
        rest == SubSeq(heap, 1, Len(heap) - 1)
    IN  IF Len(rest) > 0
        THEN <<rest[1], siftup_loop([rest EXCEPT ![1] = lastelt], 1, lastelt)>>
        ELSE <<lastelt, rest>>

\* ---------------------------------------------------------- prioritymap
NoCall == [op |-> "none", raised |-> FALSE, ret |-> <<>>]

EmptyDict == [k \in {} |-> {}]

DictSet(d, key, value) ==
    [k \in DOMAIN d \cup {key} |-> IF k = key THEN value ELSE d[k]]

DictDel(d, key) == [k \in DOMAIN d \ {key} |-> d[k]]

pm_init == [heap |-> <<>>, dict |-> EmptyDict]

pm_contains(pm, key) == key \in DOMAIN pm.dict

pm_getitem(pm, key) == pm.dict[key]

pm_len(pm) == Cardinality(DOMAIN pm.dict)

pm_setitem(pm, key, value) ==
    [heap |-> heappush(pm.heap, key), dict |-> DictSet(pm.dict, key, value)]

\* min() raises IndexError on an empty heap, KeyError on a key without bucket
pm_min_raises(pm) == Len(pm.heap) = 0 \/ pm.heap[1] \notin DOMAIN pm.dict

pm_min(pm) == <<pm.heap[1], pm.dict[pm.heap[1]]>>

pm_pop_raises(pm) == Len(pm.heap) = 0 \/ heappop(pm.heap)[1] \notin DOMAIN pm.dict

\* pop(): the map afterwards; the returned pair is pm_pop_result.  A pop that
\* raises KeyError at line 37 has already taken the key off the heap
pm_pop(pm) ==
    IF Len(pm.heap) = 0 THEN pm
    ELSE LET popped == heappop(pm.heap)
         IN  IF popped[1] \in DOMAIN pm.dict
             THEN [heap |-> popped[2], dict |-> DictDel(pm.dict, popped[1])]
             ELSE [heap |-> popped[2], dict |-> pm.dict]

pm_pop_result(pm) ==
    LET key == heappop(pm.heap)[1]
    IN  <<key, pm.dict[key]>>

\* values(): the buckets in heap order; raises KeyError on a stale heap key
pm_values_raises(pm) == \E i \in 1..Len(pm.heap) : pm.heap[i] \notin DOMAIN pm.dict

pm_values(pm) == [i \in 1..Len(pm.heap) |-> pm.dict[pm.heap[i]]]

\* the bucket of key with point added (to_search[key].add(point))
BucketAdd(pm, key, point) ==
    [pm EXCEPT !.dict = DictSet(pm.dict, key, pm.dict[key] \cup {point})]

\* ------------------------------------------------------ shared by a_star/ara
\* the orders in which python may iterate over the set S
Orders(S) ==
    {o \in [1..Cardinality(S) -> S] : \A i, j \in 1..Cardinality(S) : i # j => o[i] # o[j]}

\* python truthiness of "max_cost": None and 0 are both false
Truthy(m) == m # NoMaxCost /\ m # 0

\* the list build_path appends to: p, prev[p], ... up to but excluding start;
\* <<NoPoint>> marks a failed lookup prev[tmp] or a walk that never ends
RECURSIVE path_back(_, _, _)
path_back(pv, tmp, fuel) ==
    IF tmp = start THEN <<>>
    ELSE IF fuel = 0 \/ pv[tmp] = NoPoint THEN <<NoPoint>>
    ELSE LET rest == path_back(pv, pv[tmp], fuel - 1)
         IN  IF rest # <<>> /\ rest[Len(rest)] = NoPoint THEN <<NoPoint>>
             ELSE <<tmp>> \o rest

Reverse(s) == [i \in 1..Len(s) |-> s[Len(s) + 1 - i]]

build_path_fails(pv, p) == path_back(pv, p, Cardinality(DOMAIN pv)) = <<NoPoint>>

\* build_path returning the list as appended, goal first
build_path_unreversed(pv, p) == Append(path_back(pv, p, Cardinality(DOMAIN pv)), start)

\* build_path(p): reversed(path) after path.append(start)
build_path(pv, p) == Reverse(Append(path_back(pv, p, Cardinality(DOMAIN pv)), start))

\* lines 90-94 / 160-164: min(), current_set.pop() of the point c, and pop()
\* of the bucket when it became empty; the caller has checked PopRaises
PopRaises(pm) ==
    \/ pm_min_raises(pm)
    \/ pm_min(pm)[2] = {}

AfterSetPop(pm, c) ==
    [pm EXCEPT !.dict = DictSet(pm.dict, pm.heap[1], pm.dict[pm.heap[1]] \ {c})]

Drained(pm, c) == pm_min(pm)[2] \ {c} = {}

\* a pop that leaves the point in its bucket
AfterPop_peek(pm, c) == pm

\* a pop that leaves the drained bucket in the frontier
AfterPop_keep_empty(pm, c) == AfterSetPop(pm, c)

AfterPop(pm, c) ==
    IF Drained(pm, c) THEN pm_pop(AfterSetPop(pm, c)) ELSE AfterSetPop(pm, c)

\* an insert that always assigns a fresh bucket, also under a live key
InsertOrMerge_replace(pm, key, point) == pm_setitem(pm, key, {point})

\* insert-or-merge of lines 114-117 / 201-204 / 184-187
InsertOrMerge(pm, key, point) ==
    IF pm_contains(pm, key)
    THEN BucketAdd(pm, key, point)
    ELSE pm_setitem(pm, key, {point})

\* ---------------------------------------------------------------- a_star
EdgeTables == [EdgeSlots -> (0..MaxEdgeCost) \cup {NoEdge}]
\* heuristic(start) only keys the first frontier entry (lines 76-78): it is 0
Heuristics == {h \in [Points -> 0..MaxH] : h[1] = 0}
MaxCosts == (0..MaxMaxCost) \cup {NoMaxCost}

AStarInit ==
    /\ alg = "a_star"
    /\ args = <<>>
    /\ edge \in EdgeTables
    /\ hfn \in Heuristics
    /\ start = 1
    /\ end = NumPoints
    /\ max_cost \in MaxCosts
    /\ factors_arg = <<>>
    /\ factors = <<>>
    /\ to_search = pm_setitem(pm_init, hfn[start], {start})
    /\ searched = {}
    /\ prev = [p \in Points |-> NoPoint]
    /\ cost = [p \in Points |-> IF p = start THEN 0 ELSE Inf]
    /\ cost_with_heuristic = [p \in Points |-> IF p = start THEN hfn[start] ELSE Inf]
    /\ best_cost = Inf
    /\ current = NoPoint
    /\ pc = "loop"
    /\ result = <<>>
    /\ yielded = <<>>
    /\ last = NoCall
    /\ duplicates = FALSE
    /\ invoked = NoCalls(Points)

\* the relaxation without the test of line 107
a_star_relax_overwrite(st, cur, neighbor) ==
    LET calc == st.cost[cur] + get_distance(cur, neighbor)
        f == calc + heuristic(neighbor)
    IN  [prev |-> [st.prev EXCEPT ![neighbor] = cur],
         cost |-> [st.cost EXCEPT ![neighbor] = calc],
         cwh |-> [st.cwh EXCEPT ![neighbor] = f],
         ts |-> IF Truthy(max_cost) /\ f > max_cost
                THEN st.ts
                ELSE InsertOrMerge(st.ts, f, neighbor)]

\* the relaxation without the max_cost test of lines 112-113
a_star_relax_unpruned(st, cur, neighbor) ==
    LET calc == st.cost[cur] + get_distance(cur, neighbor)
        f == calc + heuristic(neighbor)
    IN  IF calc < st.cost[neighbor]
        THEN [prev |-> [st.prev EXCEPT ![neighbor] = cur],
              cost |-> [st.cost EXCEPT ![neighbor] = calc],
              cwh |-> [st.cwh EXCEPT ![neighbor] = f],
              ts |-> InsertOrMerge(st.ts, f, neighbor)]
        ELSE st

\* lines 105-117 for one neighbor; st is [prev, cost, cwh, ts]
a_star_relax(st, cur, neighbor) ==
    LET calc == st.cost[cur] + get_distance(cur, neighbor)
        f == calc + heuristic(neighbor)
    IN  IF calc < st.cost[neighbor]
        THEN [prev |-> [st.prev EXCEPT ![neighbor] = cur],
              cost |-> [st.cost EXCEPT ![neighbor] = calc],
              cwh |-> [st.cwh EXCEPT ![neighbor] = f],
              ts |-> IF Truthy(max_cost) /\ f > max_cost
                     THEN st.ts
                     ELSE InsertOrMerge(st.ts, f, neighbor)]
        ELSE st

\* the for loop of line 104 over the neighbors in the order given
RECURSIVE a_star_relax_all(_, _, _, _)
a_star_relax_all(st, cur, order, i) ==
    IF i > Len(order) THEN st
    ELSE a_star_relax_all(a_star_relax(st, cur, order[i]), cur, order, i + 1)

SearchState == [prev |-> prev, cost |-> cost, cwh |-> cost_with_heuristic, ts |-> to_search]

\* line 89 false, line 120: return None
AStarLoopExit ==
    /\ alg = "a_star" /\ pc = "loop"
    /\ pm_len(to_search) = 0
    /\ pc' = "done"
    /\ result' = <<>>
    /\ UNCHANGED <<inputs, invoked, factors, to_search, searched, prev, cost,
                   cost_with_heuristic, best_cost, current, yielded, last>>

\* lines 90-94
AStarPop ==
    /\ alg = "a_star" /\ pc = "loop"
    /\ pm_len(to_search) > 0
    /\ IF PopRaises(to_search)
       THEN /\ pc' = "raised"
            /\ UNCHANGED <<to_search, current>>
       ELSE \E c \in pm_min(to_search)[2] :
               IF Drained(to_search, c) /\ pm_pop_raises(AfterSetPop(to_search, c))
               THEN /\ pc' = "raised"
                    /\ to_search' = AfterPop(to_search, c)
                    /\ current' = c
               ELSE /\ pc' = "popped"
                    /\ to_search' = AfterPop(to_search, c)
                    /\ current' = c
    /\ UNCHANGED <<inputs, invoked, factors, searched, prev, cost, cost_with_heuristic,
                   best_cost, result, yielded, last>>

\* lines 95-96
AStarSkip ==
    /\ alg = "a_star" /\ pc = "popped"
    /\ current \in searched
    /\ pc' = "loop"
    /\ UNCHANGED <<inputs, invoked, factors, to_search, searched, prev, cost,
                   cost_with_heuristic, best_cost, current, result, yielded, last>>

\* lines 101-102
AStarReturnPath ==
    /\ alg = "a_star" /\ pc = "popped"
    /\ current \notin searched
    /\ current = end
    /\ IF build_path_fails(prev, current)
       THEN pc' = "raised" /\ UNCHANGED <<result, invoked>>
       ELSE /\ pc' = "done"
            /\ invoked' = CallbackOn(invoked, current)
            /\ result' = build_path(prev, current)
    /\ UNCHANGED <<inputs, factors, to_search, searched, prev, cost,
                   cost_with_heuristic, best_cost, current, yielded, last>>

\* the expansion without the test of lines 95-96
AStarExpand_unguarded ==
    /\ alg = "a_star" /\ pc = "popped"
    /\ current # end
    /\ \E order \in Orders(get_neighbors(current) \ searched) :
          LET st == a_star_relax_all(SearchState, current, order, 1)
          IN  /\ prev' = st.prev
              /\ cost' = st.cost
              /\ cost_with_heuristic' = st.cwh
              /\ to_search' = st.ts
    /\ searched' = searched \cup {current}
    /\ invoked' = NeighborsOn(CallbackOn(invoked, current), current)
    /\ pc' = "loop"
    /\ UNCHANGED <<inputs, factors, best_cost, current, result, yielded, last>>

\* the expansion without the goal test of lines 101-102
AStarExpand_goal_too ==
    /\ alg = "a_star" /\ pc = "popped"
    /\ current \notin searched
    /\ \E order \in Orders(get_neighbors(current) \ searched) :
          LET st == a_star_relax_all(SearchState, current, order, 1)
          IN  /\ prev' = st.prev
              /\ cost' = st.cost
              /\ cost_with_heuristic' = st.cwh
              /\ to_search' = st.ts
    /\ searched' = searched \cup {current}
    /\ invoked' = NeighborsOn(CallbackOn(invoked, current), current)
    /\ pc' = "loop"
    /\ UNCHANGED <<inputs, factors, best_cost, current, result, yielded, last>>

\* lines 104-119
AStarExpand ==
    /\ alg = "a_star" /\ pc = "popped"
    /\ current \notin searched
    /\ current # end
    /\ \E order \in Orders(get_neighbors(current) \ searched) :
          LET st == a_star_relax_all(SearchState, current, order, 1)
          IN  /\ prev' = st.prev
              /\ cost' = st.cost
              /\ cost_with_heuristic' = st.cwh
              /\ to_search' = st.ts
    /\ searched' = searched \cup {current}
    /\ invoked' = NeighborsOn(CallbackOn(invoked, current), current)
    /\ pc' = "loop"
    /\ UNCHANGED <<inputs, factors, best_cost, current, result, yielded, last>>

AStarNext ==
    \/ AStarLoopExit
    \/ AStarPop
    \/ AStarSkip
    \/ AStarReturnPath
    \/ AStarExpand

AStarSpec == AStarInit /\ [][AStarNext]_vars

\* a_star is one synchronous call: the loop keeps running until it returns
AStarFairSpec == AStarSpec /\ WF_vars(AStarNext)

\* ------------------------------------------------------------------- ara
\* the factor lists a caller may pass: every list over 1..MaxFactor of at
\* most MaxFactors elements
FactorLists == UNION {[1..n -> 1..MaxFactor] : n \in 0..MaxFactors}

AraInit ==
    /\ alg = "ara"
    /\ args = <<>>
    /\ edge \in EdgeTables
    /\ hfn \in Heuristics
    /\ start = 1
    /\ end = NumPoints
    /\ max_cost = NoMaxCost
    /\ factors_arg \in FactorLists
    /\ factors = factors_arg
    /\ to_search = pm_setitem(pm_init, hfn[start], {start})
    /\ searched = {}
    /\ prev = [p \in Points |-> IF p = start THEN start ELSE NoPoint]
    /\ cost = [p \in Points |-> IF p = start THEN 0 ELSE Inf]
    /\ cost_with_heuristic = [p \in Points |-> IF p = start THEN hfn[start] ELSE Inf]
    /\ best_cost = Inf
    /\ current = NoPoint
    /\ pc = "loop"
    /\ result = <<>>
    /\ yielded = <<>>
    /\ last = NoCall
    /\ duplicates = FALSE
    /\ invoked = NoCalls(Points)

\* the relaxation with line 193 forgetting the cost of the current point
ara_relax_edge_only(st, cur, neighbor) ==
    LET calc == get_distance(cur, neighbor)
        f == calc + factors[1] * heuristic(neighbor)
    IN  IF calc < st.cost[neighbor] /\ calc + heuristic(neighbor) < best_cost
        THEN [prev |-> [st.prev EXCEPT ![neighbor] = cur],
              cost |-> [st.cost EXCEPT ![neighbor] = calc],
              cwh |-> [st.cwh EXCEPT ![neighbor] = f],
              ts |-> InsertOrMerge(st.ts, f, neighbor)]
        ELSE st

\* the relaxation without the best_cost test of line 196
ara_relax_unbounded(st, cur, neighbor) ==
    LET calc == st.cost[cur] + get_distance(cur, neighbor)
        f == calc + factors[1] * heuristic(neighbor)
    IN  IF calc < st.cost[neighbor]
        THEN [prev |-> [st.prev EXCEPT ![neighbor] = cur],
              cost |-> [st.cost EXCEPT ![neighbor] = calc],
              cwh |-> [st.cwh EXCEPT ![neighbor] = f],
              ts |-> InsertOrMerge(st.ts, f, neighbor)]
        ELSE st

\* the relaxation that records a predecessor only for a point that has none
ara_relax_first_prev(st, cur, neighbor) ==
    LET calc == st.cost[cur] + get_distance(cur, neighbor)
        f == calc + factors[1] * heuristic(neighbor)
    IN  IF calc < st.cost[neighbor] /\ calc + heuristic(neighbor) < best_cost
        THEN [prev |-> IF st.prev[neighbor] = NoPoint
                       THEN [st.prev EXCEPT ![neighbor] = cur]
                       ELSE st.prev,
              cost |-> [st.cost EXCEPT ![neighbor] = calc],
              cwh |-> [st.cwh EXCEPT ![neighbor] = f],
              ts |-> InsertOrMerge(st.ts, f, neighbor)]
        ELSE st

\* the relaxation that also admits a tentative g-cost equal to the recorded one
ara_relax_non_strict(st, cur, neighbor) ==
    LET calc == st.cost[cur] + get_distance(cur, neighbor)
        f == calc + factors[1] * heuristic(neighbor)
    IN  IF calc <= st.cost[neighbor] /\ calc + heuristic(neighbor) < best_cost
        THEN [prev |-> [st.prev EXCEPT ![neighbor] = cur],
              cost |-> [st.cost EXCEPT ![neighbor] = calc],
              cwh |-> [st.cwh EXCEPT ![neighbor] = f],
              ts |-> InsertOrMerge(st.ts, f, neighbor)]
        ELSE st

\* the relaxation that records the g-cost but no predecessor
ara_relax_no_prev(st, cur, neighbor) ==
    LET calc == st.cost[cur] + get_distance(cur, neighbor)
        f == calc + factors[1] * heuristic(neighbor)
    IN  IF calc < st.cost[neighbor] /\ calc + heuristic(neighbor) < best_cost
        THEN [prev |-> st.prev,
              cost |-> [st.cost EXCEPT ![neighbor] = calc],
              cwh |-> [st.cwh EXCEPT ![neighbor] = f],
              ts |-> InsertOrMerge(st.ts, f, neighbor)]
        ELSE st

\* lines 193-204 for one neighbor; st is [prev, cost, cwh, ts]
ara_relax(st, cur, neighbor) ==
    LET calc == st.cost[cur] + get_distance(cur, neighbor)
        f == calc + factors[1] * heuristic(neighbor)
    IN  IF calc < st.cost[neighbor] /\ calc + heuristic(neighbor) < best_cost
        THEN [prev |-> [st.prev EXCEPT ![neighbor] = cur],
              cost |-> [st.cost EXCEPT ![neighbor] = calc],
              cwh |-> [st.cwh EXCEPT ![neighbor] = f],
              ts |-> InsertOrMerge(st.ts, f, neighbor)]
        ELSE st

\* the for loop of line 192 over the neighbors in the order given
RECURSIVE ara_relax_all(_, _, _, _)
ara_relax_all(st, cur, order, i) ==
    IF i > Len(order) THEN st
    ELSE ara_relax_all(ara_relax(st, cur, order[i]), cur, order, i + 1)

\* line 179: the lists [x for s in to_search.values() for x in s] python may
\* build: buckets in heap order, each bucket in any order
RECURSIVE NodeLists(_, _)
NodeLists(buckets, i) ==
    IF i > Len(buckets) THEN {<<>>}
    ELSE {a \o b : a \in Orders(buckets[i]), b \in NodeLists(buckets, i + 1)}

\* the re-keying that forgets the inflation factor
rekey_node_uninflated(st, node, factor) ==
    LET ch == cost[node] + heuristic(node)
    IN  [cwh |-> [st.cwh EXCEPT ![node] = ch],
         ts |-> InsertOrMerge(st.ts, ch, node)]

\* lines 182-187 for one node under the new first factor; st is [cwh, ts]
rekey_node(st, node, factor) ==
    LET ch == cost[node] + factor * heuristic(node)
    IN  [cwh |-> [st.cwh EXCEPT ![node] = ch],
         ts |-> InsertOrMerge(st.ts, ch, node)]

RECURSIVE rekey_all(_, _, _, _)
rekey_all(st, nodes, factor, i) ==
    IF i > Len(nodes) THEN st
    ELSE rekey_all(rekey_node(st, nodes[i], factor), nodes, factor, i + 1)

\* lines 174-190 with the break of line 177 taken unconditionally
Advance_break ==
    /\ factors' = Tail(factors)
    /\ pc' = "done"
    /\ UNCHANGED <<to_search, cost_with_heuristic>>

\* lines 174-190 without line 174: the factor is kept
Advance_keep ==
    /\ factors' = factors
    /\ IF pm_values_raises(to_search)
       THEN /\ pc' = "raised"
            /\ UNCHANGED <<to_search, cost_with_heuristic>>
       ELSE \E nodes \in NodeLists(pm_values(to_search), 1) :
               LET st == rekey_all([cwh |-> cost_with_heuristic, ts |-> pm_init],
                                   nodes, factors[1], 1)
               IN  /\ to_search' = st.ts
                   /\ cost_with_heuristic' = st.cwh
                   /\ pc' = "loop"

\* lines 174-190: discard the first factor, then stop or re-key the frontier
Advance ==
    /\ factors' = Tail(factors)
    /\ IF Len(Tail(factors)) = 0
       THEN /\ pc' = "done"
            /\ UNCHANGED <<to_search, cost_with_heuristic>>
       ELSE IF pm_values_raises(to_search)
       THEN /\ pc' = "raised"
            /\ UNCHANGED <<to_search, cost_with_heuristic>>
       ELSE \E nodes \in NodeLists(pm_values(to_search), 1) :
               LET st == rekey_all([cwh |-> cost_with_heuristic, ts |-> pm_init],
                                   nodes, Tail(factors)[1], 1)
               IN  /\ to_search' = st.ts
                   /\ cost_with_heuristic' = st.cwh
                   /\ pc' = "loop"

\* line 159 false, line 205: the generator is exhausted
AraLoopExit ==
    /\ alg = "ara" /\ pc = "loop"
    /\ ~(pm_len(to_search) > 0 /\ Len(factors) > 0)
    /\ pc' = "done"
    /\ UNCHANGED <<inputs, invoked, factors, to_search, searched, prev, cost,
                   cost_with_heuristic, best_cost, current, result, yielded, last>>

\* lines 160-167
AraPop ==
    /\ alg = "ara" /\ pc = "loop"
    /\ pm_len(to_search) > 0 /\ Len(factors) > 0
    /\ IF PopRaises(to_search)
       THEN /\ pc' = "raised"
            /\ UNCHANGED <<to_search, current, invoked>>
       ELSE \E c \in pm_min(to_search)[2] :
               IF \/ Drained(to_search, c) /\ pm_pop_raises(AfterSetPop(to_search, c))
                  \/ prev[c] = NoPoint
               THEN /\ pc' = "raised"
                    /\ to_search' = AfterPop(to_search, c)
                    /\ current' = c
                    /\ UNCHANGED invoked
               ELSE /\ pc' = "popped"
                    /\ to_search' = AfterPop(to_search, c)
                    /\ current' = c
                    /\ invoked' = CallbackOn(invoked, c)
    /\ UNCHANGED <<inputs, factors, searched, prev, cost, cost_with_heuristic,
                   best_cost, result, yielded, last>>

\* lines 169-173: the goal was popped with a better cost; the generator
\* suspends at the yield
AraGoalYield ==
    /\ alg = "ara" /\ pc = "popped"
    /\ current = end
    /\ cost[current] < best_cost
    /\ best_cost' = cost[current]
    /\ IF build_path_fails(prev, current)
       THEN pc' = "raised" /\ UNCHANGED yielded
       ELSE pc' = "yield" /\ yielded' = Append(yielded, build_path(prev, current))
    /\ UNCHANGED <<inputs, invoked, factors, to_search, searched, prev, cost,
                   cost_with_heuristic, current, result, last>>

\* a goal pop that yields nothing and goes on without discarding a factor
AraGoalNoYield_skip ==
    /\ alg = "ara" /\ pc = "popped"
    /\ current = end
    /\ ~(cost[current] < best_cost)
    /\ pc' = "loop"
    /\ UNCHANGED <<inputs, invoked, factors, to_search, searched, prev, cost,
                   cost_with_heuristic, best_cost, current, result, yielded, last>>

\* lines 169-190 when line 171 is false
AraGoalNoYield ==
    /\ alg = "ara" /\ pc = "popped"
    /\ current = end
    /\ ~(cost[current] < best_cost)
    /\ Advance
    /\ UNCHANGED <<inputs, invoked, searched, prev, cost, best_cost, current, result,
                   yielded, last>>

\* the consumer asks for the next path: lines 174-190 after the yield
AraResume ==
    /\ alg = "ara" /\ pc = "yield"
    /\ Advance
    /\ UNCHANGED <<inputs, invoked, searched, prev, cost, best_cost, current, result,
                   yielded, last>>

\* the expansion without the goal test of line 169
AraExpand_any ==
    /\ alg = "ara" /\ pc = "popped"
    /\ \E order \in Orders(get_neighbors(current)) :
          LET st == ara_relax_all(SearchState, current, order, 1)
          IN  /\ prev' = st.prev
              /\ cost' = st.cost
              /\ cost_with_heuristic' = st.cwh
              /\ to_search' = st.ts
    /\ invoked' = NeighborsOn(invoked, current)
    /\ pc' = "loop"
    /\ UNCHANGED <<inputs, factors, searched, best_cost, current, result,
                   yielded, last>>

\* lines 192-204
AraExpand ==
    /\ alg = "ara" /\ pc = "popped"
    /\ current # end
    /\ \E order \in Orders(get_neighbors(current)) :
          LET st == ara_relax_all(SearchState, current, order, 1)
          IN  /\ prev' = st.prev
              /\ cost' = st.cost
              /\ cost_with_heuristic' = st.cwh
              /\ to_search' = st.ts
    /\ invoked' = NeighborsOn(invoked, current)
    /\ pc' = "loop"
    /\ UNCHANGED <<inputs, factors, searched, best_cost, current, result,
                   yielded, last>>

AraNext ==
    \/ AraLoopExit
    \/ AraPop
    \/ AraGoalYield
    \/ AraGoalNoYield
    \/ AraResume
    \/ AraExpand

AraSpec == AraInit /\ [][AraNext]_vars

\* lines 131-148 for a caller whose points, edge-cost table and heuristic
\* are drawn from the sets given, with start the first point
AraStart(points, tables, heuristics, goal) ==
    /\ alg = "ara"
    /\ args = <<>>
    /\ edge \in tables
    /\ hfn \in heuristics
    /\ start = 1
    /\ end = goal
    /\ max_cost = NoMaxCost
    /\ factors_arg \in FactorLists
    /\ factors = factors_arg
    /\ to_search = pm_setitem(pm_init, hfn[start], {start})
    /\ searched = {}
    /\ prev = [p \in points |-> IF p = start THEN start ELSE NoPoint]
    /\ cost = [p \in points |-> IF p = start THEN 0 ELSE Inf]
    /\ cost_with_heuristic = [p \in points |-> IF p = start THEN hfn[start] ELSE Inf]
    /\ best_cost = Inf
    /\ current = NoPoint
    /\ pc = "loop"
    /\ result = <<>>
    /\ yielded = <<>>
    /\ last = NoCall
    /\ duplicates = FALSE
    /\ invoked = NoCalls(points)

\* ara over edge costs up to MaxFlatCost
FlatEdgeTables == [EdgeSlots -> (0..MaxFlatCost) \cup {NoEdge}]

AraFlatInit == AraStart(Points, FlatEdgeTables, Heuristics, NumPoints)

AraFlatSpec == AraFlatInit /\ [][AraNext]_vars

\* the consumer keeps asking for the next path and the generator keeps
\* running between yields
AraFlatFairSpec == AraFlatSpec /\ WF_vars(AraNext)

\* ara under heuristics that fall by more than an edge costs: heuristic
\* values up to MaxSteepH over edge costs up to MaxFlatCost
SteepHeuristics == {h \in [Points -> 0..MaxSteepH] : h[1] = 0}

AraSteepInit == AraStart(Points, FlatEdgeTables, SteepHeuristics, NumPoints)

AraSteepSpec == AraSteepInit /\ [][AraNext]_vars

\* ara on a ring of NumRing points, start next to the goal, with the chord
\* from start to the third point; every edge has a cost: up to MaxFlatCost
\* along the ring, up to MaxEdgeCost on the two shortcuts from start (the
\* chord, and the edge from start to the goal)
RingPoints == 1..NumRing

RingShortcuts == {<<1, NumRing>>, <<1, 3>>}

RingSlots == {<<i, i + 1>> : i \in 1..(NumRing - 1)} \cup RingShortcuts

RingEdgeTables ==
    {t \in [RingSlots -> 0..MaxEdgeCost] :
        \A e \in RingSlots \ RingShortcuts : t[e] <= MaxFlatCost}

\* the heuristic is 0 at start and at the goal
RingHeuristics == {h \in [RingPoints -> 0..MaxSteepH] : h[1] = 0 /\ h[NumRing] = 0}

AraRingInit == AraStart(RingPoints, RingEdgeTables, RingHeuristics, NumRing)

AraRingSpec == AraRingInit /\ [][AraNext]_vars

\* ---------------------------------------------- a caller of prioritymap
Keys == 0..MaxKey
Values == {{p} : p \in Points}

PMInit ==
    /\ alg = "pm"
    /\ args = <<>>
    /\ edge = [e \in EdgeSlots |-> NoEdge]
    /\ hfn = [p \in Points |-> 0]
    /\ start = 1
    /\ end = 1
    /\ max_cost = NoMaxCost
    /\ factors_arg = <<>>
    /\ factors = <<>>
    /\ to_search = pm_init
    /\ searched = {}
    /\ prev = [p \in Points |-> NoPoint]
    /\ cost = [p \in Points |-> Inf]
    /\ cost_with_heuristic = [p \in Points |-> Inf]
    /\ best_cost = Inf
    /\ current = NoPoint
    /\ pc = "caller"
    /\ result = <<>>
    /\ yielded = <<>>
    /\ last = NoCall
    /\ duplicates = FALSE
    /\ invoked = NoCalls(Points)

pm_frame == <<alg, args, invoked, edge, hfn, start, end, max_cost, factors_arg, factors, searched, prev, cost,
              cost_with_heuristic, best_cost, current, pc, result, yielded>>

\* pm[key] = value
PMSetItem ==
    /\ alg = "pm"
    /\ Len(to_search.heap) < MaxHeap
    /\ \E key \in Keys, value \in Values :
          /\ to_search' = pm_setitem(to_search, key, value)
          /\ duplicates' = (duplicates \/ pm_contains(to_search, key))
          /\ last' = [op |-> "setitem", raised |-> FALSE, ret |-> <<key, value>>]
    /\ UNCHANGED pm_frame

\* a min() that also removes the entry it returns
PMMin_pops ==
    /\ alg = "pm"
    /\ last' = IF pm_min_raises(to_search)
               THEN [op |-> "min", raised |-> TRUE, ret |-> <<>>]
               ELSE [op |-> "min", raised |-> FALSE, ret |-> pm_min(to_search)]
    /\ to_search' = IF pm_min_raises(to_search) THEN to_search ELSE pm_pop(to_search)
    /\ UNCHANGED duplicates
    /\ UNCHANGED pm_frame

\* pm.min()
PMMin ==
    /\ alg = "pm"
    /\ last' = IF pm_min_raises(to_search)
               THEN [op |-> "min", raised |-> TRUE, ret |-> <<>>]
               ELSE [op |-> "min", raised |-> FALSE, ret |-> pm_min(to_search)]
    /\ UNCHANGED <<to_search, duplicates>>
    /\ UNCHANGED pm_frame

\* pm.pop()
PMPop ==
    /\ alg = "pm"
    /\ last' = IF pm_pop_raises(to_search)
               THEN [op |-> "pop", raised |-> TRUE, ret |-> <<>>]
               ELSE [op |-> "pop", raised |-> FALSE, ret |-> pm_pop_result(to_search)]
    /\ to_search' = pm_pop(to_search)
    /\ UNCHANGED duplicates
    /\ UNCHANGED pm_frame

PMNext ==
    \/ PMSetItem
    \/ PMMin
    \/ PMPop

PMSpec == PMInit /\ [][PMNext]_vars

\* ------------------------------------------------------- float arithmetic
\* a float is <<n, d>>: the fraction n/d in lowest terms with d > 0, or
\* <<1, 0>> for inf, <<-1, 0>> for -inf, <<0, 0>> for nan
RECURSIVE GCD(_, _)
GCD(a, b) == IF b = 0 THEN a ELSE GCD(b, a % b)

Abs(x) == IF x < 0 THEN -x ELSE x

Sign(x) == IF x < 0 THEN -1 ELSE IF x > 0 THEN 1 ELSE 0

Min(a, b) == IF a <= b THEN a ELSE b

Max(a, b) == IF a >= b THEN a ELSE b

Frac(n, d) ==
    LET g == GCD(Abs(n), Abs(d))
    IN  <<(Sign(d) * n) \div g, Abs(d) \div g>>

Num(i) == <<i, 1>>

FInf == <<1, 0>>

FNaN == <<0, 0>>

FNeg(a) == <<-a[1], a[2]>>

FAdd(a, b) ==
    IF a[2] # 0 /\ b[2] # 0 THEN Frac(a[1] * b[2] + b[1] * a[2], a[2] * b[2])
    ELSE IF a[2] = 0 /\ b[2] = 0 THEN (IF a = b THEN a ELSE FNaN)
    ELSE IF a[2] = 0 THEN a ELSE b

FSub(a, b) == FAdd(a, FNeg(b))

FMul(a, b) ==
    IF a[2] # 0 /\ b[2] # 0 THEN Frac(a[1] * b[1], a[2] * b[2])
    ELSE <<Sign(a[1]) * Sign(b[1]), 0>>

\* a / b raises ZeroDivisionError when b is zero
FDivRaises(a, b) == b[2] # 0 /\ b[1] = 0

FDiv(a, b) ==
    IF a[2] # 0 /\ b[2] # 0 THEN Frac(a[1] * b[2], a[2] * b[1])
    ELSE IF a[2] = 0 /\ b[2] = 0 THEN FNaN
    ELSE IF a[2] = 0 THEN <<Sign(a[1]) * Sign(b[1]), 0>>
    ELSE IF b = FNaN THEN FNaN ELSE Num(0)

\* a == b on floats: nan equals nothing
FEq(a, b) == a # FNaN /\ a = b

\* a <= b on floats: every comparison with nan is False
FLe(a, b) ==
    IF a = FNaN \/ b = FNaN THEN FALSE
    ELSE IF a[2] # 0 /\ b[2] # 0 THEN a[1] * b[2] <= b[1] * a[2]
    ELSE IF a[2] = 0 /\ b[2] = 0 THEN a[1] <= b[1]
    ELSE IF a[2] = 0 THEN a[1] < 0 ELSE b[1] > 0

\* hash(v): a function of the value hashed
Hash(v) == <<"hash", v>>

\* the 0.0005 of Rect.__contains__
Tolerance == Frac(5, 10000)

\* ------------------------------------------------------------ ui.py: Line
\* Line(coord1, coord2); a caller's coordinate is <<x, y>> with integer x, y
Line(coord1, coord2) ==
    LET slope == IF coord1[1] = coord2[1] THEN FInf
                 ELSE FDiv(Num(coord2[2] - coord1[2]), Num(coord2[1] - coord1[1]))
    IN  [point1 |-> coord1,
         point2 |-> coord2,
         points |-> <<coord1, coord2>>,
         slope |-> slope,
         y_intercept |-> FSub(Num(coord1[2]), FMul(slope, Num(coord1[1]))),
         height |-> Abs(coord1[2] - coord2[2]),
         width |-> Abs(coord1[1] - coord2[1]),
         x_left |-> Min(coord1[1], coord2[1]),
         x_right |-> Max(coord1[1], coord2[1]),
         y_top |-> Max(coord1[2], coord2[2]),
         y_bottom |-> Min(coord1[2], coord2[2]),
         hash |-> Hash({coord1, coord2})]

\* Line.__eq__ for two Lines
Line_eq(self, other) == {self.point1, self.point2} = {other.point1, other.point2}

\* Line.x_to_y(x) for a float x
x_to_y(self, x) == FAdd(FMul(self.slope, x), self.y_intercept)

\* ------------------------------------------------------------ ui.py: Rect
\* a Rect that takes its two arguments as the lower-left and upper-right
\* corners without the min / max of lines 321-322
Rect_unnormalized(coord1, coord2) ==
    LET lower_left == coord1
        upper_right == coord2
        lower_right == <<upper_right[1], lower_left[2]>>
        upper_left == <<lower_left[1], upper_right[2]>>
    IN  [width |-> Abs(coord1[1] - coord2[1]),
         height |-> Abs(coord1[2] - coord2[2]),
         lower_left |-> lower_left,
         upper_right |-> upper_right,
         lower_right |-> lower_right,
         upper_left |-> upper_left,
         points |-> <<upper_left, upper_right, lower_left, lower_right>>,
         lines |-> <<Line(upper_left, upper_right), Line(upper_right, lower_right),
                     Line(lower_right, lower_left), Line(lower_left, upper_left)>>,
         hash |-> Hash(<<lower_left, upper_right, "rect">>)]

Rect(coord1, coord2) ==
    LET lower_left == <<Min(coord1[1], coord2[1]), Min(coord1[2], coord2[2])>>
        upper_right == <<Max(coord1[1], coord2[1]), Max(coord1[2], coord2[2])>>
        lower_right == <<upper_right[1], lower_left[2]>>
        upper_left == <<lower_left[1], upper_right[2]>>
    IN  [width |-> Abs(coord1[1] - coord2[1]),
         height |-> Abs(coord1[2] - coord2[2]),
         lower_left |-> lower_left,
         upper_right |-> upper_right,
         lower_right |-> lower_right,
         upper_left |-> upper_left,
         points |-> <<upper_left, upper_right, lower_left, lower_right>>,
         lines |-> <<Line(upper_left, upper_right), Line(upper_right, lower_right),
                     Line(lower_right, lower_left), Line(lower_left, upper_left)>>,
         hash |-> Hash(<<lower_left, upper_right, "rect">>)]

\* Rect.__contains__ for a point <<x, y>> of floats
Rect_contains(self, point) ==
    /\ FLe(FSub(Num(self.lower_left[1]), Tolerance), point[1])
    /\ FLe(point[1], FAdd(Num(self.upper_right[1]), Tolerance))
    /\ FLe(FSub(Num(self.lower_left[2]), Tolerance), point[2])
    /\ FLe(point[2], FAdd(Num(self.upper_right[2]), Tolerance))

\* Rect.__eq__ for two Rects
Rect_eq(self, o) == self.lower_left = o.lower_left /\ self.upper_right = o.upper_right

\* --------------------------------------------- ui.py: Line intersections
None == <<>>

\* point_of_intersection without the test of line 233
point_of_intersection_unchecked(self, line) ==
    IF self.slope = FInf
    THEN [raised |-> FALSE, ret |-> <<Num(self.point1[1]), x_to_y(line, Num(self.point1[1]))>>]
    ELSE IF line.slope = FInf
    THEN [raised |-> FALSE, ret |-> <<Num(line.point1[1]), x_to_y(self, Num(line.point1[1]))>>]
    ELSE LET num == FSub(self.y_intercept, line.y_intercept)
             den == FSub(line.slope, self.slope)
         IN  IF FDivRaises(num, den)
             THEN [raised |-> TRUE, ret |-> None]
             ELSE [raised |-> FALSE, ret |-> <<FDiv(num, den), x_to_y(self, FDiv(num, den))>>]

\* Line.point_of_intersection(line): [raised, ret], ret None or <<x, y>>
point_of_intersection(self, line) ==
    IF FEq(self.slope, line.slope)
    THEN [raised |-> FALSE, ret |-> None]
    ELSE IF self.slope = FInf
    THEN [raised |-> FALSE, ret |-> <<Num(self.point1[1]), x_to_y(line, Num(self.point1[1]))>>]
    ELSE IF line.slope = FInf
    THEN [raised |-> FALSE, ret |-> <<Num(line.point1[1]), x_to_y(self, Num(line.point1[1]))>>]
    ELSE LET num == FSub(self.y_intercept, line.y_intercept)
             den == FSub(line.slope, self.slope)
         IN  IF FDivRaises(num, den)
             THEN [raised |-> TRUE, ret |-> None]
             ELSE [raised |-> FALSE, ret |-> <<FDiv(num, den), x_to_y(self, FDiv(num, den))>>]

\* Line.intersects(line): [raised, ret]
intersects(self, line) ==
    LET poi == point_of_intersection(self, line)
    IN  IF poi.raised THEN [raised |-> TRUE, ret |-> FALSE]
        ELSE IF poi.ret = None THEN [raised |-> FALSE, ret |-> FALSE]
        ELSE [raised |-> FALSE,
              ret |-> /\ Rect_contains(Rect(self.point1, self.point2), poi.ret)
                      /\ Rect_contains(Rect(line.point1, line.point2), poi.ret)]

\* ----------------------------------------------------------- ui.py: Shape
\* the Shape whose hash is taken from the coordinates as passed
Shape_hash_of_arguments(coords) ==
    IF Len(coords) = 0 THEN [raised |-> TRUE]
    ELSE LET n == Len(coords)
             zipped == [i \in 1..(n - 1) |-> Line(coords[i], coords[i + 1])]
             open == coords[n] # coords[1]
             lines == IF open THEN Append(zipped, Line(coords[n], coords[1])) ELSE zipped
             points == IF open THEN coords ELSE SubSeq(coords, 1, n - 1)
         IN  IF Len(lines) < 3 THEN [raised |-> TRUE]
             ELSE [raised |-> FALSE, points |-> points, lines |-> lines,
                   hash |-> Hash(coords)]

\* Shape(*coords): [raised] when the constructor raises, else the object
Shape(coords) ==
    IF Len(coords) = 0 THEN [raised |-> TRUE]
    ELSE LET n == Len(coords)
             zipped == [i \in 1..(n - 1) |-> Line(coords[i], coords[i + 1])]
             open == coords[n] # coords[1]
             lines == IF open THEN Append(zipped, Line(coords[n], coords[1])) ELSE zipped
             points == IF open THEN coords ELSE SubSeq(coords, 1, n - 1)
         IN  IF Len(lines) < 3 THEN [raised |-> TRUE]
             ELSE [raised |-> FALSE, points |-> points, lines |-> lines,
                   hash |-> Hash(points)]

\* Shape.__eq__ for two Shapes
Shape_eq(self, other) == self.points = other.points

\* ------------------------------------------------- a caller of the shapes
\* the caller's coordinates: the integer grid 0..MaxCoord squared
Coords == (0..MaxCoord) \X (0..MaxCoord)

\* three corners that do not lie on one line, for polygons
ShapeCoords == {c \in Coords : c[1] + c[2] <= 1}

\* the unit square, for rectangles
RectCoords == {c \in Coords : c[1] <= 1 /\ c[2] <= 1}

CoordSeqs(n) == UNION {[1..k -> ShapeCoords] : k \in 0..n}

\* the sequences that start at the origin (and the empty one)
FromOrigin(n) == {s \in CoordSeqs(n) : Len(s) = 0 \/ s[1] = <<0, 0>>}

NoArg == <<>>

\* the calls the caller makes, with their arguments
ShapeCall(s) == [op |-> "Shape", a |-> s, b |-> NoArg, c |-> NoArg]

ShapeEqCall(s, t) == [op |-> "Shape.__eq__", a |-> s, b |-> t, c |-> NoArg]

RectEqCall(r, s, t) == [op |-> "Rect.__eq__", a |-> r, b |-> s, c |-> t]

IntersectsCall(k, l) == [op |-> "Line.intersects", a |-> k, b |-> l, c |-> NoArg]

UIInit ==
    /\ alg = "ui"
    /\ \/ \E s \in CoordSeqs(MaxShape + 1) : args = ShapeCall(s)
       \/ \E s \in FromOrigin(MaxShape), t \in CoordSeqs(MaxShape + 1) : args = ShapeEqCall(s, t)
       \/ \E r, s, t \in RectCoords \X RectCoords : args = RectEqCall(r, s, t)
       \/ \E k, l \in Coords \X Coords : args = IntersectsCall(k, l)
    /\ edge = [e \in EdgeSlots |-> NoEdge]
    /\ hfn = [p \in Points |-> 0]
    /\ start = 1
    /\ end = 1
    /\ max_cost = NoMaxCost
    /\ factors_arg = <<>>
    /\ factors = <<>>
    /\ to_search = pm_init
    /\ searched = {}
    /\ prev = [p \in Points |-> NoPoint]
    /\ cost = [p \in Points |-> Inf]
    /\ cost_with_heuristic = [p \in Points |-> Inf]
    /\ best_cost = Inf
    /\ current = NoPoint
    /\ pc = "caller"
    /\ result = <<>>
    /\ yielded = <<>>
    /\ last = NoCall
    /\ duplicates = FALSE
    /\ invoked = NoCalls(Points)

ui_frame == <<alg, args, invoked, edge, hfn, start, end, max_cost, factors_arg, factors, to_search,
              searched, prev, cost, cost_with_heuristic, best_cost, current, result,
              yielded, duplicates>>

\* Shape(*a)
UIShape ==
    /\ alg = "ui" /\ pc = "caller" /\ args.op = "Shape"
    /\ LET s == Shape(args.a)
       IN  last' = [op |-> args.op, raised |-> s.raised, ret |-> s]
    /\ pc' = "done"
    /\ UNCHANGED ui_frame

\* Shape(*a) == Shape(*b)
UIShapeEq ==
    /\ alg = "ui" /\ pc = "caller" /\ args.op = "Shape.__eq__"
    /\ LET s == Shape(args.a)
           t == Shape(args.b)
       IN  last' = IF s.raised \/ t.raised
                   THEN [op |-> args.op, raised |-> TRUE, ret |-> None]
                   ELSE [op |-> args.op, raised |-> FALSE,
                         ret |-> [a |-> s, b |-> t, eq |-> Shape_eq(s, t)]]
    /\ pc' = "done"
    /\ UNCHANGED ui_frame

\* every comparison among Rect(*a), Rect(*b), Rect(*c)
UIRectEq ==
    /\ alg = "ui" /\ pc = "caller" /\ args.op = "Rect.__eq__"
    /\ LET rects == <<Rect(args.a[1], args.a[2]), Rect(args.b[1], args.b[2]),
                      Rect(args.c[1], args.c[2])>>
       IN  last' = [op |-> args.op, raised |-> FALSE,
                    ret |-> [rects |-> rects,
                             eq |-> [i \in 1..3 |-> [j \in 1..3 |-> Rect_eq(rects[i], rects[j])]]]]
    /\ pc' = "done"
    /\ UNCHANGED ui_frame

\* Line(*a).point_of_intersection(Line(*b)) and Line(*a).intersects(Line(*b))
UIIntersects ==
    /\ alg = "ui" /\ pc = "caller" /\ args.op = "Line.intersects"
    /\ LET k == Line(args.a[1], args.a[2])
           l == Line(args.b[1], args.b[2])
           poi == point_of_intersection(k, l)
           hit == intersects(k, l)
       IN  last' = [op |-> args.op, raised |-> poi.raised \/ hit.raised,
                    ret |-> [a |-> k, b |-> l, poi |-> poi.ret, intersects |-> hit.ret]]
    /\ pc' = "done"
    /\ UNCHANGED ui_frame

UINext ==
    \/ UIShape
    \/ UIShapeEq
    \/ UIRectEq
    \/ UIIntersects

UISpec == UIInit /\ [][UINext]_vars

\* ------------------------------------------------ a_star on a grid
\* integer square root by bisection: the r in lo..hi with r*r <= n < (r+1)*(r+1)
RECURSIVE ISqrt(_, _, _)
ISqrt(n, lo, hi) ==
    IF lo >= hi THEN lo
    ELSE LET mid == (lo + hi + 1) \div 2
         IN  IF mid * mid <= n THEN ISqrt(n, mid, hi) ELSE ISqrt(n, lo, mid - 1)

\* the distance formula without its square root
distance_squared(c1, c2) ==
    LET squares == (c1[1] - c2[1]) * (c1[1] - c2[1]) + (c1[2] - c2[2]) * (c1[2] - c2[2])
    IN  Scale * squares

\* distance(c1, c2) in fixed point: Scale units to one unit of length
distance(c1, c2) ==
    LET squares == (c1[1] - c2[1]) * (c1[1] - c2[1]) + (c1[2] - c2[2]) * (c1[2] - c2[2])
    IN  ISqrt(Scale * Scale * squares, 0, Scale * (GridCols + GridRows))

GridStart == <<0, 0>>

GridGoal == <<4, 0>>

\* the obstacle of the second scenario
GridBlocked == {<<2, 0>>}

GridCoords == (0..(GridCols - 1)) \X (0..(GridRows - 1))

\* the obstacle of the third scenario: a wall that cuts the goal off
GridWall == {c \in GridCoords : c[1] = 2}

\* grid points are numbered row by row from 1
GridNode(c) == c[2] * GridCols + c[1] + 1

GridCoordOf(p) == <<(p - 1) % GridCols, (p - 1) \div GridCols>>

GridNodes == 1..(GridCols * GridRows)

\* neighbors_free_space with grid_size 1: the candidates of a point, on
\* the grid, that no obstacle removes
neighbors_free_space(blocked, point, diagonals) ==
    LET straight == {<<point[1], point[2] - 1>>, <<point[1], point[2] + 1>>,
                     <<point[1] + 1, point[2]>>, <<point[1] - 1, point[2]>>}
        diagonal == {<<point[1] - 1, point[2] - 1>>, <<point[1] - 1, point[2] + 1>>,
                     <<point[1] + 1, point[2] - 1>>, <<point[1] + 1, point[2] + 1>>}
        candidates == IF diagonals THEN straight \cup diagonal ELSE straight
    IN  {cand \in candidates : cand \in GridCoords /\ cand \notin blocked}

\* the caller's get_neighbors and get_distance as an edge-cost table
GridEdges(blocked, diagonals) ==
    [e \in {f \in GridNodes \X GridNodes : f[1] < f[2]} |->
        IF /\ GridCoordOf(e[1]) \notin blocked
           /\ GridCoordOf(e[2]) \in neighbors_free_space(blocked, GridCoordOf(e[1]), diagonals)
        THEN distance(GridCoordOf(e[1]), GridCoordOf(e[2]))
        ELSE NoEdge]

\* the caller's heuristic: none, or the straight-line distance to the goal
GridHeuristics ==
    {[p \in GridNodes |-> 0], [p \in GridNodes |-> distance(GridCoordOf(p), GridGoal)]}

GridInit ==
    /\ alg = "a_star"
    /\ args = <<>>
    /\ \E blocked \in {{}, GridBlocked, GridWall}, diagonals \in BOOLEAN :
          edge = GridEdges(blocked, diagonals)
    /\ hfn \in GridHeuristics
    /\ start = GridNode(GridStart)
    /\ end = GridNode(GridGoal)
    /\ max_cost = NoMaxCost
    /\ factors_arg = <<>>
    /\ factors = <<>>
    /\ to_search = pm_setitem(pm_init, hfn[start], {start})
    /\ searched = {}
    /\ prev = [p \in GridNodes |-> NoPoint]
    /\ cost = [p \in GridNodes |-> IF p = start THEN 0 ELSE Inf]
    /\ cost_with_heuristic = [p \in GridNodes |-> IF p = start THEN hfn[start] ELSE Inf]
    /\ best_cost = Inf
    /\ current = NoPoint
    /\ pc = "loop"
    /\ result = <<>>
    /\ yielded = <<>>
    /\ last = NoCall
    /\ duplicates = FALSE
    /\ invoked = NoCalls(GridNodes)

GridSpec == GridInit /\ [][AStarNext]_vars

\* ------------------------------------- a_star and ara towards any goal
\* the callers of a_star and of ara whose goal is start itself or the last
\* point, over edge costs up to MaxFlatCost
AnyGoalInit ==
    /\ alg \in {"a_star", "ara"}
    /\ args = <<>>
    /\ edge \in FlatEdgeTables
    /\ hfn \in Heuristics
    /\ start = 1
    /\ end \in {start, NumPoints}
    /\ max_cost \in (IF alg = "a_star" THEN MaxCosts ELSE {NoMaxCost})
    /\ factors_arg \in (IF alg = "ara" THEN FactorLists ELSE {<<>>})
    /\ factors = factors_arg
    /\ to_search = pm_setitem(pm_init, hfn[start], {start})
    /\ searched = {}
    /\ prev = [p \in Points |-> IF alg = "ara" /\ p = start THEN start ELSE NoPoint]
    /\ cost = [p \in Points |-> IF p = start THEN 0 ELSE Inf]
    /\ cost_with_heuristic = [p \in Points |-> IF p = start THEN hfn[start] ELSE Inf]
    /\ best_cost = Inf
    /\ current = NoPoint
    /\ pc = "loop"
    /\ result = <<>>
    /\ yielded = <<>>
    /\ last = NoCall
    /\ duplicates = FALSE
    /\ invoked = NoCalls(Points)

AnyGoalSpec == AnyGoalInit /\ [][AStarNext \/ AraNext]_vars

\* ------------------------------------------------------ the entry points
Init == AStarInit \/ AraInit \/ PMInit \/ UIInit \/ GridInit

Next == AStarNext \/ AraNext \/ PMNext \/ UINext

Spec == Init /\ [][Next]_vars

\* ---------------------------------------------- reference definitions
\* the sum of the edge costs along a sequence of points
RECURSIVE PathCost(_)
PathCost(path) ==
    IF Len(path) <= 1 THEN 0
    ELSE get_distance(path[1], path[2]) + PathCost(Tail(path))

\* a walk of the caller's graph from start to end, in travel order
IsWalk(path) ==
    /\ Len(path) >= 1
    /\ path[1] = start
    /\ path[Len(path)] = end
    /\ \A i \in 1..(Len(path) - 1) : path[i + 1] \in get_neighbors(path[i])

MinOf(S) == CHOOSE x \in S : \A y \in S : x <= y

\* reference shortest-path costs from src: k rounds of relaxing every edge
RECURSIVE Relaxed(_, _)
Relaxed(d, k) ==
    IF k = 0 THEN d
    ELSE LET via(p) == {d[q] + get_distance(q, p) : q \in {r \in get_neighbors(p) : d[r] < Inf}}
             next == [p \in Nodes |-> MinOf({d[p]} \cup via(p))]
         IN  Relaxed(next, k - 1)

ShortestFrom(src) == Relaxed([p \in Nodes |-> IF p = src THEN 0 ELSE Inf], Cardinality(Nodes) - 1)

Optimum == ShortestFrom(start)[end]

Reachable == Optimum < Inf

\* the heuristic never overestimates the true remaining cost to the goal
\* (edges are undirected, so the cost from p to end is the cost from end to p)
Admissible ==
    LET remaining == ShortestFrom(end)
    IN  \A p \in Nodes : hfn[p] <= remaining[p]

ZeroHeuristic == \A p \in Nodes : hfn[p] = 0

\* ===================================================================== C1
\* C1: whenever a_star (called without max_cost) returns a path under a
\* heuristic that never overestimates, the sum of the path's edge costs is
\* the minimum cost of any start-to-goal path.
C1_AdmissibleOptimal ==
    (alg = "a_star" /\ pc = "done" /\ result # <<>> /\ max_cost = NoMaxCost /\ Admissible)
        => PathCost(result) = Optimum

\* ===================================================================== C2
\* C2: with the zero heuristic and no max_cost, a_star never raises, returns
\* None exactly when the reference search finds the goal unreachable, and
\* otherwise returns a path whose cost is the reference shortest-path cost.
C2_MatchesDijkstra ==
    (alg = "a_star" /\ ZeroHeuristic /\ max_cost = NoMaxCost)
        => /\ pc # "raised"
           /\ pc = "done" => IF result = <<>>
                             THEN ~Reachable
                             ELSE Reachable /\ PathCost(result) = Optimum

\* a run that returned a three-edge path although a two-edge walk exists
C2_Witness ==
    /\ alg = "a_star" /\ ZeroHeuristic /\ max_cost = NoMaxCost
    /\ pc = "done"
    /\ Len(result) = 4
    /\ 3 \in get_neighbors(1) /\ 4 \in get_neighbors(3)

\* ===================================================================== C3
\* C3: every path a_star returns and every path ara yields starts at start,
\* ends at the goal, and each consecutive pair (p, q) has q in neighbor_fn(p).
C3_PathsAreWalks ==
    /\ (alg = "a_star" /\ pc = "done" /\ result # <<>>) => IsWalk(result)
    /\ alg = "ara" => \A i \in 1..Len(yielded) : IsWalk(yielded[i])

\* ara has yielded two paths of at least two edges each
C3_Witness ==
    /\ alg = "ara"
    /\ Len(yielded) = 2
    /\ Len(yielded[1]) >= 3
    /\ Len(yielded[2]) >= 3

\* ===================================================================== C4
\* C4: without max_cost a_star raises no exception, and it returns None
\* exactly when the goal is not reachable from start, with an empty frontier.
C4_NotFoundIffUnreachable ==
    (alg = "a_star" /\ max_cost = NoMaxCost)
        => /\ pc # "raised"
           /\ pc = "done" => ((result = <<>>) <=> ~Reachable)
           /\ (pc = "done" /\ result = <<>>) => pm_len(to_search) = 0

\* None was returned after three points had been expanded
C4_Witness ==
    /\ alg = "a_star" /\ max_cost = NoMaxCost
    /\ pc = "done" /\ result = <<>>
    /\ Cardinality(searched) = 3

\* ===================================================================== C5
\* C5: on every graph of the family, for every heuristic, every max_cost and
\* every tie-breaking order, a_star eventually returns (a path or None).
C5_AStarTerminates == <>(pc = "done")

\* a run that returned under a heuristic that overestimates, with a
\* discovered point left unexpanded
C5_Witness ==
    /\ alg = "a_star" /\ pc = "done"
    /\ ~Admissible
    /\ \E p \in Points \ {current} : cost_with_heuristic[p] < Inf /\ p \notin searched
    /\ Cardinality(searched) >= 2

EndsAtOne == Len(factors_arg) > 0 /\ factors_arg[Len(factors_arg)] = 1

C7_LastYieldOptimal ==
    (alg = "ara" /\ pc = "done" /\ EndsAtOne /\ Reachable /\ Admissible)
        => /\ Len(yielded) > 0
           /\ PathCost(yielded[Len(yielded)]) = Optimum

\* an exhausted run under factors <<2, 1>> whose first path was not optimal
\* and whose second path is
C7_Witness ==
    /\ alg = "ara" /\ pc = "done" /\ EndsAtOne
    /\ Len(factors_arg) = 2 /\ factors_arg[1] = 2
    /\ Len(yielded) = 2
    /\ PathCost(yielded[1]) > Optimum
    /\ PathCost(yielded[2]) = Optimum
    /\ Admissible

\* ===================================================================== C8
\* C8: ara never yields more paths than it was given factors (each yield
\* uses up one factor), yields nothing for an empty factor list, and yields
\* nothing more once the last factor has been discarded.
C8_YieldsBoundedByFactors ==
    /\ [](alg = "ara" =>
            /\ Len(yielded) <= Len(factors_arg)
            /\ Len(yielded) + Len(factors) <= Len(factors_arg) + (IF pc = "yield" THEN 1 ELSE 0))
    /\ [][(alg = "ara" /\ Len(factors) = 0) => yielded' = yielded]_vars

\* two factors were given, two paths were yielded and no factor is left
C8_Witness ==
    /\ alg = "ara" /\ pc = "done"
    /\ Len(factors_arg) = 2
    /\ Len(yielded) = 2
    /\ Len(factors) = 0

\* ===================================================================== C9
\* C9: when a_star is given a numeric max_cost, no point other than start
\* is ever in the frontier under a key f greater than max_cost, and no point
\* other than start is taken for expansion with f above max_cost.
C9_PrunedNeverInserted ==
    (alg = "a_star" /\ max_cost # NoMaxCost) =>
        /\ \A k \in DOMAIN to_search.dict :
              \A p \in to_search.dict[k] : p # start => k <= max_cost
        /\ (pc = "popped" /\ current # start /\ current \notin searched)
              => cost_with_heuristic[current] <= max_cost

\* ==================================================================== C10
\* C10: after inserts of distinct keys and pops, min() fails on an empty
\* map and otherwise returns the smallest live key with the value stored
\* under it; the call leaves the map as it was, and a min() that follows a
\* min() returns the same result.
C10_MinPeeksSmallest ==
    /\ []((alg = "pm" /\ ~duplicates /\ last.op = "min") =>
            IF pm_len(to_search) = 0
            THEN last.raised
            ELSE /\ ~last.raised
                 /\ last.ret[1] = MinOf(DOMAIN to_search.dict)
                 /\ last.ret[2] = to_search.dict[last.ret[1]])
    /\ [][(alg = "pm" /\ ~duplicates /\ last'.op = "min") => to_search' = to_search]_vars
    /\ [][(alg = "pm" /\ ~duplicates /\ last.op = "min" /\ last'.op = "min") => last' = last]_vars

\* min() has answered on a map of three live keys whose heap array is not
\* in sorted order
C10_Witness ==
    /\ alg = "pm" /\ ~duplicates
    /\ last.op = "min" /\ ~last.raised
    /\ pm_len(to_search) = 3
    /\ to_search.heap[2] > to_search.heap[3]
    /\ last.ret[1] < to_search.heap[3]

\* ==================================================================== C11
\* the distinct edges a coordinate sequence results in: the unordered pairs
\* of consecutive points, and the closing pair when the last point is not
\* the first
ResultingEdges(coords) ==
    IF Len(coords) = 0 THEN {}
    ELSE {{coords[i], coords[i + 1]} : i \in 1..(Len(coords) - 1)}
         \cup (IF coords[Len(coords)] # coords[1]
               THEN {{coords[Len(coords)], coords[1]}} ELSE {})

\* C11: constructing a Shape raises whenever the coordinates result in
\* fewer than 3 distinct edges.
C11_FewEdgesRejected ==
    (alg = "ui" /\ pc = "done" /\ args.op = "Shape"
        /\ Cardinality(ResultingEdges(args.a)) < 3)
        => last.raised

\* ==================================================================== C12
\* b holds the same points as a, as often, in some order
IsReordering(a, b) ==
    /\ Len(a) = Len(b)
    /\ \A c \in ShapeCoords :
          Cardinality({i \in 1..Len(a) : a[i] = c}) = Cardinality({i \in 1..Len(b) : b[i] = c})

\* the outcome of comparing Shape(a) with Shape(a, a[1]): both are built,
\* they are equal, store the points of a, have the same Len(a) edges and
\* the same hash
ClosedEqualsOpen ==
    /\ ~last.raised
    /\ last.ret.eq
    /\ last.ret.a.points = args.a
    /\ last.ret.b.points = args.a
    /\ Len(last.ret.a.lines) = Len(args.a)
    /\ Len(last.ret.b.lines) = Len(args.a)
    /\ \A i \in 1..Len(args.a) : Line_eq(last.ret.a.lines[i], last.ret.b.lines[i])
    /\ last.ret.a.hash = last.ret.b.hash

\* a reordering (a rotation is one) of an accepted sequence to a different
\* sequence compares unequal
ReorderedUnequal ==
    (IsReordering(args.a, args.b) /\ args.b # args.a /\ ~last.raised) => ~last.ret.eq

\* C12 as stated: for every accepted sequence a of at least 3 points,
\* Shape(a, a[1]) equals Shape(a) with the same points, the same Len(a)
\* edges and the same hash, and a reordering gives an unequal Shape.
C12_ClosingPointDropped ==
    (alg = "ui" /\ pc = "done" /\ args.op = "Shape.__eq__")
        => /\ (Len(args.a) >= 3 /\ ~Shape(args.a).raised
                  /\ args.b = Append(args.a, args.a[1]))
                => ClosedEqualsOpen
           /\ ReorderedUnequal

\* C12 amended: the same, for the accepted sequences whose last point
\* differs from the first.
C12_ClosingPointDroppedWhenOpen ==
    (alg = "ui" /\ pc = "done" /\ args.op = "Shape.__eq__")
        => /\ (Len(args.a) >= 3 /\ ~Shape(args.a).raised
                  /\ args.a[Len(args.a)] # args.a[1]
                  /\ args.b = Append(args.a, args.a[1]))
                => ClosedEqualsOpen
           /\ ReorderedUnequal

\* a triangle was compared with the same triangle closed explicitly
C12_Witness ==
    /\ alg = "ui" /\ pc = "done" /\ args.op = "Shape.__eq__"
    /\ Len(args.a) = 3
    /\ Cardinality({args.a[i] : i \in 1..3}) = 3
    /\ args.b = Append(args.a, args.a[1])
    /\ ~last.raised /\ last.ret.eq

\* ==================================================================== C13
\* the two segments have equal slope: both run straight up (or are single
\* points), or neither does and the rises over the runs agree
EqualSlope(k, l) ==
    LET dxk == k[2][1] - k[1][1]
        dyk == k[2][2] - k[1][2]
        dxl == l[2][1] - l[1][1]
        dyl == l[2][2] - l[1][2]
    IN  \/ dxk = 0 /\ dxl = 0
        \/ dxk # 0 /\ dxl # 0 /\ dyk * dxl = dyl * dxk

\* C13: for two segments of equal slope point_of_intersection returns None
\* and intersects returns False, and neither raises.
C13_ParallelNeverIntersect ==
    (alg = "ui" /\ pc = "done" /\ args.op = "Line.intersects" /\ EqualSlope(args.a, args.b))
        => /\ ~last.raised
           /\ last.ret.poi = None
           /\ last.ret.intersects = FALSE

\* two slanted segments on one line that overlap in more than a point were
\* reported as not intersecting
C13_Witness ==
    /\ alg = "ui" /\ pc = "done" /\ args.op = "Line.intersects"
    /\ args.a = <<(<<0, 0>>), (<<2, 2>>)>>
    /\ args.b = <<(<<1, 1>>), (<<2, 2>>)>>
    /\ ~last.raised
    /\ last.ret.intersects = FALSE

\* ==================================================================== C14
\* the grid points a rectangle with opposite corners r[1], r[2] covers
Span(r) ==
    {c \in Coords : /\ (r[1][1] <= c[1] /\ c[1] <= r[2][1]) \/ (r[2][1] <= c[1] /\ c[1] <= r[1][1])
                    /\ (r[1][2] <= c[2] /\ c[2] <= r[2][2]) \/ (r[2][2] <= c[2] /\ c[2] <= r[1][2])}

RectArgs == <<args.a, args.b, args.c>>

\* C14: two Rects compare equal exactly when they span the same rectangle,
\* whichever opposite corners they were built from and in whichever order;
\* equal Rects have equal hashes; == is reflexive, symmetric and transitive.
C14_RectEqualityNormalized ==
    (alg = "ui" /\ pc = "done" /\ args.op = "Rect.__eq__")
        => /\ \A i, j \in 1..3 :
                 /\ last.ret.eq[i][j] <=> (Span(RectArgs[i]) = Span(RectArgs[j]))
                 /\ last.ret.eq[i][j] => last.ret.rects[i].hash = last.ret.rects[j].hash
                 /\ last.ret.eq[i][i]
                 /\ last.ret.eq[i][j] => last.ret.eq[j][i]
           /\ \A i, j, k \in 1..3 :
                 (last.ret.eq[i][j] /\ last.ret.eq[j][k]) => last.ret.eq[i][k]

\* the unit square built from one diagonal, from the other diagonal taken
\* backwards, and a different rectangle: the first two are equal, the third
\* is not
C14_Witness ==
    /\ alg = "ui" /\ pc = "done" /\ args.op = "Rect.__eq__"
    /\ args.a = <<(<<0, 0>>), (<<1, 1>>)>>
    /\ args.b = <<(<<1, 0>>), (<<0, 1>>)>>
    /\ args.c = <<(<<0, 0>>), (<<1, 0>>)>>
    /\ last.ret.eq[1][2] /\ ~last.ret.eq[1][3]

\* ==================================================================== C15
\* the call is a_star on the grid with these obstacles and moves
OnGrid(blocked, diagonals) == alg = "a_star" /\ edge = GridEdges(blocked, diagonals)

StraightRow == [i \in 1..(GridGoal[1] + 1) |-> GridNode(<<i - 1, 0>>)]

\* C15: on the obstacle-free 4-connected grid a_star from (0,0) to (4,0)
\* ends by returning (0,0),(1,0),(2,0),(3,0),(4,0), of cost 4, whatever
\* the order of the neighbors and of the points within a bucket.
C15_GridStraightLine ==
    OnGrid({}, FALSE) =>
        /\ pc # "raised"
        /\ pc = "done" => (result = StraightRow /\ PathCost(result) = 4 * Scale)

\* the straight row was returned after a point off the row was expanded
C15_Witness ==
    /\ OnGrid({}, FALSE) /\ pc = "done"
    /\ result = StraightRow
    /\ \E p \in searched : GridCoordOf(p)[2] > 0

\* ==================================================================== C16
\* sqrt(2) in fixed point, Scale units to 1
Sqrt2 == ISqrt(2 * Scale * Scale, 0, 2 * Scale)

\* C16 as stated: with (2,0) removed and diagonal moves allowed, the path
\* a_star returns from (0,0) to (4,0) costs 3 + sqrt(2).
C16_DetourCostThreePlusRoot2 ==
    (OnGrid(GridBlocked, TRUE) /\ pc = "done") => PathCost(result) = 3 * Scale + Sqrt2

\* C16 amended: the returned path costs 2 + 2 * sqrt(2), two straight and
\* two diagonal moves.
C16_DetourCostTwoPlusTwoRoot2 ==
    OnGrid(GridBlocked, TRUE) =>
        /\ pc # "raised"
        /\ pc = "done" => /\ result # <<>>
                          /\ PathCost(result) = 2 * Scale + 2 * Sqrt2

\* the returned path leaves the row at (1,0) for (2,1) and comes back
C16_Witness ==
    /\ OnGrid(GridBlocked, TRUE) /\ pc = "done"
    /\ Len(result) = 5
    /\ result[2] = GridNode(<<1, 0>>)
    /\ result[3] = GridNode(<<2, 1>>)
    /\ result[4] = GridNode(<<3, 0>>)

\* ==================================================================== C17
\* C17: during an a_star or ara run no point is in the buckets of two
\* different live priorities of the frontier.
C17_OnePriorityPerPoint ==
    alg \in {"a_star", "ara"} =>
        \A k1, k2 \in DOMAIN to_search.dict :
            k1 # k2 => to_search.dict[k1] \cap to_search.dict[k2] = {}

\* ==================================================================== C18
\* C18: a min() or pop() that finds a leftover heap entry of a key whose
\* bucket is gone skips it and goes on with the next live key: the call
\* raises only when no live key is left.
C18_StaleEntrySkipped ==
    (alg = "pm" /\ last.op \in {"min", "pop"} /\ last.raised) => pm_len(to_search) = 0

\* ==================================================================== C19
\* C19: in an a_star run get_neighbors and the callback are each called at
\* most once per point, and a popped point that is already finalized is
\* discarded: no cost, predecessor, finalized set or call changes.
C19_ExpandedAtMostOnce ==
    /\ [](alg = "a_star" =>
            \A p \in Nodes : invoked.neighbors[p] <= 1 /\ invoked.callback[p] <= 1)
    /\ [][(alg = "a_star" /\ pc = "popped" /\ current \in searched) =>
            /\ cost' = cost
            /\ cost_with_heuristic' = cost_with_heuristic
            /\ prev' = prev
            /\ searched' = searched
            /\ invoked' = invoked]_vars

\* a point that was expanded before has been popped once more
C19_Witness ==
    /\ alg = "a_star" /\ pc = "popped"
    /\ current \in searched
    /\ invoked.neighbors[current] = 1

\* ==================================================================== C20
\* C20: under a heuristic that never overestimates, the g-cost recorded for
\* every finalized point is the minimum cost of a path from start to it.
C20_FinalizedCostsMinimal ==
    (alg = "a_star" /\ Admissible) =>
        \A p \in searched : cost[p] = ShortestFrom(start)[p]

\* ==================================================================== C21
\* the points resident in a frontier
Resident(pm) == UNION {pm.dict[k] : k \in DOMAIN pm.dict}

\* C21: a step of ara that discards a factor after a pop of the goal and
\* leaves at least one factor goes on with the loop on a frontier that
\* holds exactly the points the old frontier held, each in exactly one
\* bucket, the one of key g-cost(point) + (new first factor) * heuristic(point).
C21_RekeyKeepsResidents ==
    [][(alg = "ara" /\ current = end /\ pc \in {"popped", "yield"}
            /\ factors' = Tail(factors) /\ Len(factors') > 0)
        => /\ pc' = "loop"
           /\ Resident(to_search') = Resident(to_search)
           /\ \A p \in Resident(to_search') : \A k \in DOMAIN to_search'.dict :
                 p \in to_search'.dict[k] <=> k = cost'[p] + factors'[1] * hfn[p]]_vars

\* the frontier was re-keyed from factor 1 to factor 2 with two points
\* resident, one of which has a non-zero heuristic
C21_Witness ==
    /\ alg = "ara" /\ pc = "loop" /\ current = end
    /\ factors_arg = <<1, 2>> /\ factors = <<2>>
    /\ \E p, q \in Resident(to_search) :
          /\ p # q
          /\ hfn[p] = 1
          /\ p \in to_search.dict[cost[p] + 2]

\* ==================================================================== C22
\* ara has popped the goal and not yet discarded the factor of this pass
GoalPopped == alg = "ara" /\ current = end /\ pc \in {"popped", "yield"}

\* every point of the frontier after the step is in exactly the bucket of
\* its g-cost plus the new first factor times its heuristic
Rekeyed ==
    \A p \in Resident(to_search') : \A k \in DOMAIN to_search'.dict :
        p \in to_search'.dict[k] <=> k = cost'[p] + factors'[1] * hfn[p]

\* a pop of the goal with a better g-cost suspends at the yield with one
\* more path and all factors; factors are discarded by goal pops only
YieldThenDiscard ==
    /\ (GoalPopped /\ pc = "popped" /\ cost[end] < best_cost)
          => /\ pc' = "yield"
             /\ factors' = factors
             /\ Len(yielded') = Len(yielded) + 1
             /\ best_cost' = cost[end]
    /\ (alg = "ara" /\ factors' # factors) => GoalPopped

\* C22 as stated: every pop of the goal discards exactly one factor and
\* re-keys the frontier, after the yield or without one; a goal pop whose
\* g-cost is not strictly below best_cost yields nothing and leaves
\* best_cost unchanged.
C22_GoalPopDiscardsAndRekeys ==
    [][/\ YieldThenDiscard
       /\ (GoalPopped /\ (pc = "yield" \/ ~(cost[end] < best_cost)))
             => /\ factors' = Tail(factors)
                /\ yielded' = yielded
                /\ best_cost' = best_cost
                /\ pc' = "loop"
                /\ Rekeyed]_vars

\* C22 amended: the same, with the re-keying only when a factor remains;
\* a goal pop that discards the last factor ends the generator and leaves
\* the frontier as it is.
C22_GoalPopDiscardsThenRekeysOrStops ==
    [][/\ YieldThenDiscard
       /\ (GoalPopped /\ (pc = "yield" \/ ~(cost[end] < best_cost)))
             => /\ factors' = Tail(factors)
                /\ yielded' = yielded
                /\ best_cost' = best_cost
                /\ IF Len(factors') > 0
                   THEN pc' = "loop" /\ Rekeyed
                   ELSE pc' = "done" /\ to_search' = to_search]_vars

\* the goal was popped a second time at the g-cost already yielded: no
\* second path, and the last factor is gone
C22_Witness ==
    /\ alg = "ara" /\ pc = "done" /\ current = end
    /\ Len(factors_arg) = 2 /\ factors = <<>>
    /\ Len(yielded) = 1
    /\ best_cost = cost[end]

\* ==================================================================== C23
\* C23: in an ara run get_neighbors is never called on the goal, and the
\* steps that handle a popped goal change no g-cost and no predecessor
\* and bring no point into the frontier.
C23_GoalNeverExpanded ==
    /\ [](alg = "ara" => invoked.neighbors[end] = 0)
    /\ [][GoalPopped =>
            /\ cost' = cost
            /\ prev' = prev
            /\ Resident(to_search') \subseteq Resident(to_search)
            /\ invoked'.neighbors = invoked.neighbors]_vars

\* the goal was popped and handled, the search goes on, and a neighbor of
\* the goal has not been discovered
C23_Witness ==
    /\ alg = "ara" /\ pc = "loop" /\ current = end
    /\ Len(factors) > 0
    /\ \E q \in get_neighbors(end) : cost[q] = Inf
    /\ invoked.neighbors[end] = 0
    /\ invoked.callback[end] = 1

\* ==================================================================== C24
\* the keys of the buckets a point is in
KeysOf(pm, p) == {k \in DOMAIN pm.dict : p \in pm.dict[k]}

\* the relaxation of q from the popped point is admitted: q is a neighbor,
\* the tentative g-cost is strictly below the recorded one, and with the
\* un-inflated heuristic added it is strictly below best_cost
Admitted(q) ==
    /\ q \in get_neighbors(current)
    /\ cost[current] + get_distance(current, q) < cost[q]
    /\ cost[current] + get_distance(current, q) + hfn[q] < best_cost

\* C24: when ara expands a popped point, an admitted neighbor gets the
\* tentative g-cost, the popped point as predecessor and a place in the
\* bucket of its inflated priority; every other point keeps its g-cost,
\* predecessor, priority and buckets; with no neighbor admitted the whole
\* search state stays as it is; and g-costs never increase in a run.
C24_RelaxOnlyWhenAdmitted ==
    /\ [][alg = "ara" => \A q \in Nodes : cost'[q] <= cost[q]]_vars
    /\ [][(alg = "ara" /\ pc = "popped" /\ current # end) =>
            /\ \A q \in Nodes :
                  IF Admitted(q)
                  THEN LET calc == cost[current] + get_distance(current, q)
                       IN  /\ cost'[q] = calc
                           /\ prev'[q] = current
                           /\ cost_with_heuristic'[q] = calc + factors[1] * hfn[q]
                           /\ calc + factors[1] * hfn[q] \in KeysOf(to_search', q)
                  ELSE /\ cost'[q] = cost[q]
                       /\ prev'[q] = prev[q]
                       /\ cost_with_heuristic'[q] = cost_with_heuristic[q]
                       /\ KeysOf(to_search', q) = KeysOf(to_search, q)
            /\ (\A q \in Nodes : ~Admitted(q)) =>
                  /\ to_search' = to_search
                  /\ best_cost' = best_cost
                  /\ factors' = factors]_vars

\* a point was expanded after a path had been yielded, and a neighbor whose
\* tentative g-cost was below its recorded one was turned down by best_cost
C24_Witness ==
    /\ alg = "ara" /\ pc = "loop"
    /\ current # NoPoint /\ current # end
    /\ best_cost < Inf
    /\ \E q \in get_neighbors(current) :
          /\ cost[current] + get_distance(current, q) < cost[q]
          /\ cost[current] + get_distance(current, q) + hfn[q] >= best_cost

C26_NotFoundIffBeyondMaxCost ==
    (alg = "a_star" /\ ZeroHeuristic /\ max_cost > 0)
        => /\ pc # "raised"
           /\ pc = "done" => IF result = <<>>
                             THEN Optimum > max_cost
                             ELSE Optimum <= max_cost /\ PathCost(result) = Optimum

\* the third point was first reached over an edge above max_cost, so it was
\* recorded and dropped; the path returned runs through it all the same
C26_Witness ==
    /\ alg = "a_star" /\ ZeroHeuristic /\ max_cost = 1
    /\ pc = "done"
    /\ edge[<<1, 3>>] = 2
    /\ result = <<1, 2, 3, 4>>

\* ==================================================================== C27
\* the number of (key, point) entries of a frontier
Entries(pm) == Cardinality({kp \in (DOMAIN pm.dict) \X Nodes : kp[2] \in pm.dict[kp[1]]})

\* how far the current iteration is from the head of the next one
Position(at) == IF at = "popped" THEN 2 ELSE IF at \in {"loop", "yield"} THEN 1 ELSE 0

\* the step takes the run closer to its end: it discards a factor, or keeps
\* the factors and lowers a g-cost (raising none), or keeps both and takes
\* an entry out of the frontier, or keeps all three and moves on within
\* the iteration
Closer ==
    \/ Len(factors') < Len(factors)
    \/ /\ factors' = factors
       /\ \A q \in Nodes : cost'[q] <= cost[q]
       /\ \/ \E q \in Nodes : cost'[q] < cost[q]
          \/ Entries(to_search') < Entries(to_search)
          \/ Entries(to_search') = Entries(to_search) /\ Position(pc') < Position(pc)

\* C27: on every graph of the family, for every heuristic, factor list and
\* tie-breaking order, an ara generator whose consumer keeps asking for the
\* next path is eventually exhausted; every step of it takes the run closer
\* to its end.
C27_AraTerminates ==
    /\ <>(alg = "ara" /\ pc = "done")
    /\ [][alg = "ara" => Closer]_vars

\* the generator is exhausted after it expanded some point twice
C27_Witness ==
    /\ alg = "ara" /\ pc = "done"
    /\ \E p \in Nodes : invoked.neighbors[p] >= 2

\* ==================================================================== C28
\* C28: in an ara run the callback's predecessor lookup never fails: every
\* popped point has a recorded predecessor and a finite g-cost; start stays
\* its own predecessor, and from every point that has a predecessor the
\* predecessor links lead to start without running in a circle.
C28_PredecessorsLeadToStart ==
    alg = "ara" =>
        /\ pc # "raised"
        /\ pc \in {"popped", "yield"} =>
              /\ prev[current] # NoPoint
              /\ cost[current] < Inf
              /\ ~build_path_fails(prev, current)
        /\ prev[start] = start
        /\ \A p \in Nodes : prev[p] # NoPoint => ~build_path_fails(prev, p)

\* a point that was expanded before has been popped again, now two links
\* away from start
C28_Witness ==
    /\ alg = "ara" /\ pc = "popped"
    /\ invoked.neighbors[current] >= 1
    /\ Len(build_path(prev, current)) = 3

\* ==================================================================== C29
\* C29: when start is the goal, neither a_star nor ara calls get_neighbors
\* or raises; a_star returns the path of start alone; ara yields at most
\* one path, the path of start alone, and when it was given at least one
\* factor it ends having yielded exactly that.
C29_StartIsGoal ==
    (alg \in {"a_star", "ara"} /\ start = end) =>
        /\ pc # "raised"
        /\ \A p \in Nodes : invoked.neighbors[p] = 0
        /\ (alg = "a_star" /\ pc = "done") => result = <<start>>
        /\ alg = "ara" => \/ yielded = <<>>
                          \/ yielded = <<(<<start>>)>>
        /\ (alg = "ara" /\ pc = "done" /\ factors_arg # <<>>) => yielded = <<(<<start>>)>>
        /\ (alg = "ara" /\ pc = "done" /\ factors_arg = <<>>) => yielded = <<>>

\* ara was given two factors and a start that is the goal and has two
\* neighbors; it ended after the one path, with a factor left
C29_Witness ==
    /\ alg = "ara" /\ start = end /\ pc = "done"
    /\ Len(factors_arg) = 2 /\ Len(factors) = 1
    /\ Cardinality(get_neighbors(start)) = 2
    /\ yielded = <<(<<start>>)>>
    /\ pm_len(to_search) = 0

\* ==================================================================== C30
\* every live key is in the heap exactly once, the heap holds no other key,
\* and no live bucket is empty
WellFormed(pm) ==
    /\ \A i \in 1..Len(pm.heap) : pm.heap[i] \in DOMAIN pm.dict
    /\ \A k \in DOMAIN pm.dict :
          /\ Cardinality({i \in 1..Len(pm.heap) : pm.heap[i] = k}) = 1
          /\ pm.dict[k] # {}

\* C30: at the head of the loop of a_star and of ara the frontier is well
\* formed, so that with a non-zero length min() and the pop of the bucket
\* do not raise, no pop() of a drained bucket raises, and the step from the
\* loop head never ends in an exception.
C30_FrontierWellFormedAtLoopHead ==
    /\ [](  (alg \in {"a_star", "ara"} /\ pc = "loop") =>
              /\ WellFormed(to_search)
              /\ pm_len(to_search) > 0 =>
                    /\ ~PopRaises(to_search)
                    /\ \A c \in pm_min(to_search)[2] :
                          Drained(to_search, c) => ~pm_pop_raises(AfterSetPop(to_search, c)))
    /\ [][(alg \in {"a_star", "ara"} /\ pc = "loop") => pc' # "raised"]_vars

\* ara is at the loop head after an expansion, with two live keys of which
\* the smaller holds two points, one of them also waiting under the other
C30_Witness ==
    /\ alg = "ara" /\ pc = "loop"
    /\ pm_len(to_search) = 2
    /\ Cardinality(pm_min(to_search)[2]) = 2
    /\ \E k \in DOMAIN to_search.dict :
          /\ k # pm_min(to_search)[1]
          /\ to_search.dict[k] \subseteq pm_min(to_search)[2]
    /\ \E p \in Nodes : invoked.neighbors[p] >= 1

====
